---- MODULE Spec2Model ----
(***************************************************************************)
(* Canvas element store (CanvasState.ts), command executor and message     *)
(* processor (CanvasCommandAPI.ts) of the infinite-canvas component.       *)
(*                                                                         *)
(* JavaScript values are records [t, v, o]: t is the typeof-like tag, v    *)
(* the literal text of a primitive, o the own properties of an object.     *)
(* A JavaScript object is its property map: a function from property       *)
(* names to values; reading an absent property yields Undefined.           *)
(***************************************************************************)
EXTENDS Integers, Sequences, FiniteSets, TLC

\* ------------------------------------------------------------------ bounds
\* number of ids the uuid generator may hand out in one behaviour
MaxUuid == 2
\* number of executor calls in one behaviour
MaxCalls == 4
\* the number of messages a behaviour of SpecMsg processes
MaxMsgCalls == 3
\* the number of content events the client emits in a behaviour of SpecContent
MaxEvents == 3

\* ------------------------------------------------------- JavaScript values
NoProps == [k \in {} |-> ""]
Prim(tag, text) == [t |-> tag, v |-> text, o |-> NoProps]
Obj(props) == [t |-> "object", v |-> "", o |-> props]
Undefined == Prim("undefined", "undefined")
Null == Prim("null", "null")
Num(text) == Prim("number", text)
Str(text) == Prim("string", text)
Bool(b) == Prim("boolean", IF b THEN "true" ELSE "false")
Arr(text) == Prim("array", text)
\* the exception a property read or a destructuring of null raises
TypeError == Prim("throw", "TypeError")

\* o.k : an absent property reads as undefined
Get(props, k) == IF k \in DOMAIN props THEN props[k] ELSE Undefined
\* x.k for any non-null x (a primitive has no own data properties)
Prop(x, k) == Get(x.o, k)
\* a test that lets every value through
TruthyAnything(x) == TRUE

\* ToBoolean
Truthy(x) ==
  ~ \/ x.t \in {"undefined", "null"}
    \/ x = Num("0")
    \/ x = Str("")
    \/ x = Bool(FALSE)
\* a || b
OrElse(a, b) == IF Truthy(a) THEN a ELSE b
\* a !== undefined ? a : b
DefinedOr(a, b) == IF a # Undefined THEN a ELSE b
\* { ...a, ...b }
Spread(a, b) ==
  [k \in (DOMAIN a) \cup (DOMAIN b) |-> IF k \in DOMAIN b THEN b[k] ELSE a[k]]
\* --------------------------------------------------------------- the store
\* calls counts the executor calls made so far (bounded by MaxCalls)
VARIABLES elements, selectedElementId, uuidCount, result, results, calls
\* the side panel's content handler: the activations of handleContent that
\* have not returned, the processingCanvasCommand flag, the types of the
\* log entries written, the number of content events emitted; as history,
\* the commands executed, as <<event, part, command index>>, and the parts
\* handed to processAIMessage, as <<event, part>>
VARIABLES activations, processingCanvasCommand, log, events, trace, started
hvars == <<activations, processingCanvasCommand, log, events, trace, started>>
\* the tests that parse a message and then process it: the message parsed
\* and not yet processed (a sequence of at most one message) and the
\* command list the test's parseCanvasCommands call returned
VARIABLES testMessage, testCommands
tvars == <<testMessage, testCommands>>
vars == <<elements, selectedElementId, uuidCount, result, results, calls,
          activations, processingCanvasCommand, log, events, trace, started,
          testMessage, testCommands>>

\* the store as one value, so that a batch can thread it through its commands
Store == [elements |-> elements,
          selectedElementId |-> selectedElementId,
          uuidCount |-> uuidCount]

\* the n-th id uuidv4() hands out: 8-4-4-4-12 hex digits
UuidTail == "-0000-4000-8000-000000000000"
UuidHead(n) == "0000000" \o ToString(n)
uuidv4(n) == UuidHead(n) \o UuidTail

\* an add that selects the element it adds
addElementSelectsNew(st, element) ==
  LET id == Str(uuidv4(st.uuidCount + 1))
      newElement == Spread(element, [id |-> id, selected |-> Bool(TRUE)])
  IN [st |-> [st EXCEPT !.elements = Append(st.elements, newElement),
                        !.uuidCount = st.uuidCount + 1,
                        !.selectedElementId = id],
      ret |-> id]

\* an add that puts the new element first
addElementFirst(st, element) ==
  LET id == Str(uuidv4(st.uuidCount + 1))
      newElement == Spread(element, [id |-> id])
  IN [st |-> [st EXCEPT !.elements = <<newElement>> \o st.elements,
                        !.uuidCount = st.uuidCount + 1],
      ret |-> id]

addElement(st, element) ==
  LET id == Str(uuidv4(st.uuidCount + 1))
      newElement == Spread(element, [id |-> id])
  IN [st |-> [st EXCEPT !.elements = Append(st.elements, newElement),
                        !.uuidCount = st.uuidCount + 1],
      ret |-> id]

updateElement(st, id, updates) ==
  [st EXCEPT !.elements =
     [i \in 1..Len(st.elements) |->
        IF Get(st.elements[i], "id") = id
        THEN Spread(st.elements[i], updates)
        ELSE st.elements[i]]]

\* removal by position, elements.splice(findIndex(...), 1): an absent id
\* gives index -1 and takes the last element away
removeElementSplice(st, id) ==
  LET n == Len(st.elements)
      hits == {i \in 1..n : Get(st.elements[i], "id") = id}
      idx == IF hits = {} THEN n
             ELSE CHOOSE i \in hits : \A j \in hits : i <= j
  IN [st EXCEPT !.elements =
        IF n = 0 THEN <<>>
        ELSE [j \in 1..(n - 1) |->
                IF j < idx THEN st.elements[j] ELSE st.elements[j + 1]],
                !.selectedElementId =
                   IF st.selectedElementId = id THEN Null
                   ELSE st.selectedElementId]

\* removal that always drops the selection
removeElementClearSelection(st, id) ==
  LET keep(e) == Get(e, "id") # id
  IN [st EXCEPT !.elements = SelectSeq(st.elements, keep),
                !.selectedElementId = Null]

\* removal that forgets the selection
removeElementKeepSelection(st, id) ==
  LET keep(e) == Get(e, "id") # id
  IN [st EXCEPT !.elements = SelectSeq(st.elements, keep)]

removeElement(st, id) ==
  LET keep(e) == Get(e, "id") # id
  IN [st EXCEPT !.elements = SelectSeq(st.elements, keep),
                !.selectedElementId =
                   IF st.selectedElementId = id THEN Null
                   ELSE st.selectedElementId]

\* selection that toggles: selecting the selected id again deselects it
selectElementToggle(st, id) ==
  LET target == IF st.selectedElementId = id THEN Null ELSE id
  IN [st EXCEPT !.elements =
        [i \in 1..Len(st.elements) |->
           Spread(st.elements[i],
                  [selected |-> Bool(Get(st.elements[i], "id") = target)])],
                !.selectedElementId = target]

\* selection that does nothing for an id no element has
selectElementIfPresent(st, id) ==
  IF \E i \in 1..Len(st.elements) : Get(st.elements[i], "id") = id
  THEN [st EXCEPT !.elements =
          [i \in 1..Len(st.elements) |->
             Spread(st.elements[i],
                    [selected |-> Bool(Get(st.elements[i], "id") = id)])],
                  !.selectedElementId = id]
  ELSE st

\* selection that flags the target and leaves the other flags alone
selectElementNoClear(st, id) ==
  [st EXCEPT !.elements =
     [i \in 1..Len(st.elements) |->
        IF Get(st.elements[i], "id") = id
        THEN Spread(st.elements[i], [selected |-> Bool(TRUE)])
        ELSE st.elements[i]],
             !.selectedElementId = id]

selectElement(st, id) ==
  [st EXCEPT !.elements =
     [i \in 1..Len(st.elements) |->
        Spread(st.elements[i],
               [selected |-> Bool(Get(st.elements[i], "id") = id)])],
             !.selectedElementId = id]

\* deselection that resets selectedElementId and leaves the flags alone
clearSelectionIdOnly(st) == [st EXCEPT !.selectedElementId = Null]

clearSelection(st) ==
  [st EXCEPT !.elements =
     [i \in 1..Len(st.elements) |->
        Spread(st.elements[i], [selected |-> Bool(FALSE)])],
             !.selectedElementId = Null]

\* clearing that empties the sequence and leaves selectedElementId alone
clearCanvasKeepSelection(st) == [st EXCEPT !.elements = <<>>]

clearCanvas(st) ==
  [st EXCEPT !.elements = <<>>, !.selectedElementId = Null]

\* ------------------------------------------------------------ the executor
\* an operation's outcome: the store it leaves and the value it returns
\* (TypeError when it throws)
Outcome(st, ret) == [st |-> st, ret |-> ret]

\* a default case that stores an element of the unknown type
unknownElementTypeAdds(st, elementType) ==
  LET r == addElement(st, [type |-> elementType]) IN Outcome(r.st, r.ret)

\* default: console.error(`Unknown element type: ...`); return ""
unknownElementType(st, elementType) == Outcome(st, Str(""))

createCanvasElement(st, elementType, paramsArg) ==
  LET params == IF paramsArg = Undefined THEN Obj(NoProps) ELSE paramsArg
      position == OrElse(Prop(params, "position"), Arr("[0,0,0]"))
      rotation == OrElse(Prop(params, "rotation"), Arr("[0,0,0]"))
      scale == OrElse(Prop(params, "scale"), Arr("[1,1,1]"))
      color == OrElse(Prop(params, "color"), Str("#ffffff"))
      opacity == DefinedOr(Prop(params, "opacity"), Num("1"))
      common == [position |-> position, rotation |-> rotation,
                 scale |-> scale, color |-> color, opacity |-> opacity]
      filled == DefinedOr(Prop(params, "filled"), Bool(TRUE))
      lineWidth == OrElse(Prop(params, "lineWidth"), Num("1"))
      add(element) ==
        LET r == addElement(st, element) IN Outcome(r.st, r.ret)
  IN CASE params = Null -> Outcome(st, TypeError)
       [] elementType = Str("circle") ->
            add(Spread(common,
                [type |-> Str("circle"),
                 radius |-> OrElse(Prop(params, "radius"), Num("1")),
                 filled |-> filled, lineWidth |-> lineWidth]))
       [] elementType = Str("rectangle") ->
            add(Spread(common,
                [type |-> Str("rectangle"),
                 width |-> OrElse(Prop(params, "width"), Num("2")),
                 height |-> OrElse(Prop(params, "height"), Num("1")),
                 filled |-> filled, lineWidth |-> lineWidth]))
       [] elementType = Str("line") ->
            add(Spread(common,
                [type |-> Str("line"),
                 points |-> OrElse(Prop(params, "points"),
                                   Arr("[[0,0,0],[1,1,0]]")),
                 lineWidth |-> lineWidth]))
       [] elementType = Str("polygon") ->
            add(Spread(common,
                [type |-> Str("polygon"),
                 points |-> OrElse(Prop(params, "points"),
                                   Arr("[[0,0,0],[1,0,0],[1,1,0],[0,1,0]]")),
                 filled |-> filled, lineWidth |-> lineWidth]))
       [] elementType = Str("text") ->
            add(Spread(common,
                [type |-> Str("text"),
                 text |-> OrElse(Prop(params, "text"), Str("Text")),
                 fontSize |-> OrElse(Prop(params, "fontSize"), Num("1")),
                 fontColor |-> OrElse(Prop(params, "fontColor"), color)]))
       [] elementType = Str("image") ->
            add(Spread(common,
                [type |-> Str("image"),
                 url |-> OrElse(Prop(params, "url"), Str("/logo.jpg")),
                 width |-> OrElse(Prop(params, "width"), Num("3")),
                 height |-> OrElse(Prop(params, "height"), Num("2"))]))
       [] OTHER -> unknownElementType(st, elementType)

\* the destructuring with the type field left in the patch
RestKeepingType(params) == params.o

\* const { type, ...updateParams } = params
RestWithoutType(params) ==
  [k \in (DOMAIN params.o) \ {"type"} |-> params.o[k]]

\* returns void: the outcome's ret is always Undefined unless it throws
updateCanvasElement(st, elementId, paramsArg) ==
  LET params == IF paramsArg = Undefined THEN Obj(NoProps) ELSE paramsArg
      found == \E i \in 1..Len(st.elements) :
                  Get(st.elements[i], "id") = elementId
  IN IF ~found THEN Outcome(st, Undefined)
     ELSE IF params = Null THEN Outcome(st, TypeError)
     ELSE Outcome(updateElement(st, elementId, RestWithoutType(params)),
                  Undefined)

\* a default case that empties the canvas
unknownCommandClears(st) == Outcome(clearCanvas(st), Undefined)

\* default: console.error(`Unknown command: ...`); return undefined
unknownCommand(st) == Outcome(st, Undefined)

executeCanvasCommand(st, command) ==
  IF command.t \in {"null", "undefined"} THEN Outcome(st, TypeError)
  ELSE
  LET verb == Prop(command, "command")
      elementType == Prop(command, "elementType")
      elementId == Prop(command, "elementId")
      params == Prop(command, "params")
  IN CASE verb = Str("create") ->
            IF ~Truthy(elementType) THEN Outcome(st, Undefined)
            ELSE createCanvasElement(st, elementType, params)
       [] verb = Str("update") ->
            IF ~Truthy(elementId) THEN Outcome(st, Undefined)
            ELSE LET r == updateCanvasElement(st, elementId, params)
                 IN IF r.ret = TypeError THEN r
                    ELSE Outcome(r.st, elementId)
       [] verb = Str("delete") ->
            IF ~Truthy(elementId) THEN Outcome(st, Undefined)
            ELSE Outcome(removeElement(st, elementId), elementId)
       [] verb = Str("clear") -> Outcome(clearCanvas(st), Undefined)
       [] verb = Str("select") ->
            IF ~Truthy(elementId) THEN Outcome(st, Undefined)
            ELSE Outcome(selectElement(st, elementId), elementId)
       [] verb = Str("deselect") -> Outcome(clearSelection(st), Undefined)
       [] OTHER -> unknownCommand(st)

\* what executeCanvasCommand reports with console.error for a command that
\* does not throw: the message's fixed part, "" when nothing is reported
consoleError(st, command) ==
  LET verb == Prop(command, "command")
      elementType == Prop(command, "elementType")
      elementId == Prop(command, "elementId")
  IN CASE verb = Str("create") ->
            IF ~Truthy(elementType)
            THEN "Element type is required for create command"
            ELSE IF elementType \notin
                      {Str("circle"), Str("rectangle"), Str("line"),
                       Str("polygon"), Str("text"), Str("image")}
            THEN "Unknown element type"
            ELSE ""
       [] verb = Str("update") ->
            IF ~Truthy(elementId)
            THEN "Element ID is required for update command"
            ELSE IF \A i \in 1..Len(st.elements) :
                       Get(st.elements[i], "id") # elementId
            THEN "Element with ID not found"
            ELSE ""
       [] verb = Str("delete") ->
            IF ~Truthy(elementId)
            THEN "Element ID is required for delete command"
            ELSE ""
       [] verb = Str("select") ->
            IF ~Truthy(elementId)
            THEN "Element ID is required for select command"
            ELSE ""
       [] verb \in {Str("clear"), Str("deselect")} -> ""
       [] OTHER -> "Unknown command"

\* ------------------------------------------------------------------ inputs
Command(props) == Obj(props)
BogusId == Str("bogus-id")
\* ids a caller can name: those handed out so far, and one never created
IdInputs(st) == {Str(uuidv4(n)) : n \in 1..st.uuidCount} \cup {BogusId}

CreateInputs ==
  { Command([command |-> Str("create"), elementType |-> Str("circle"),
             params |-> Obj([radius |-> Num("2"), color |-> Str("#ff0000")])]),
    Command([command |-> Str("create"), elementType |-> Str("circle"),
             params |-> Obj([radius |-> Num("2"), color |-> Str("#ff0000"),
                             id |-> BogusId, selected |-> Bool(TRUE)])]),
    Command([command |-> Str("create"), elementType |-> Str("text")]),
    Command([command |-> Str("create"), elementType |-> Str("text"),
             params |-> Obj([text |-> Str("")])]),
    Command([command |-> Str("create"), elementType |-> Str("circle"),
             params |-> Null]),
    Command([command |-> Str("create"), elementType |-> Str("hexagon"),
             params |-> Obj(NoProps)]),
    Command([command |-> Str("create"), elementType |-> Str("hexagon"),
             params |-> Null]),
    Command([command |-> Str("create")]) }

PatchInputs(st) ==
  { Obj([type |-> Str("rectangle"), color |-> Str("#00ff00")]),
    Obj([selected |-> Bool(TRUE)]),
    Obj([id |-> Null]),
    Null }
  \cup { Obj([id |-> x]) : x \in IdInputs(st) }

UpdateInputs(st) ==
  { Command([command |-> Str("update"), elementId |-> id, params |-> p]) :
      id \in IdInputs(st), p \in PatchInputs(st) }
  \cup { Command([command |-> Str("update"), elementId |-> id]) :
           id \in IdInputs(st) }
  \cup { Command([command |-> Str("update"),
                  params |-> Obj([color |-> Str("#00ff00")])]) }

DeleteInputs(st) ==
  { Command([command |-> Str("delete"), elementId |-> id]) :
      id \in IdInputs(st) }
  \cup { Command([command |-> Str("delete")]) }

SelectInputs(st) ==
  { Command([command |-> Str("select"), elementId |-> id]) :
      id \in IdInputs(st) }
  \cup { Command([command |-> Str("select")]) }

\* an unknown verb, an entry without verb, and entries that are no objects
OtherInputs ==
  { Command([command |-> Str("move"), elementId |-> BogusId]),
    Command(NoProps), Num("1"), Null }

\* ------------------------------------------------------------- the actions
Init ==
  /\ elements = <<>>
  /\ selectedElementId = Null
  /\ uuidCount = 0
  /\ result = Undefined
  /\ results = <<>>
  /\ calls = 0
  /\ activations = <<>>
  /\ processingCanvasCommand = FALSE
  /\ log = <<>>
  /\ events = 0
  /\ trace = <<>>
  /\ started = <<>>
  /\ testMessage = <<>>
  /\ testCommands = <<>>

\* one call of executeCanvasCommand; result is what it returns or throws
Execute(command) ==
  LET r == executeCanvasCommand(Store, command)
  IN /\ calls < MaxCalls
     /\ r.st.uuidCount <= MaxUuid
     /\ calls' = calls + 1
     /\ elements' = r.st.elements
     /\ selectedElementId' = r.st.selectedElementId
     /\ uuidCount' = r.st.uuidCount
     /\ result' = r.ret
     /\ UNCHANGED results
     /\ UNCHANGED hvars
     /\ UNCHANGED tvars

Create == \E c \in CreateInputs : Execute(c)
Update == \E c \in UpdateInputs(Store) : Execute(c)
Delete == \E c \in DeleteInputs(Store) : Execute(c)
Clear == Execute(Command([command |-> Str("clear")]))
Select == \E c \in SelectInputs(Store) : Execute(c)
Deselect == Execute(Command([command |-> Str("deselect")]))
Other == \E c \in OtherInputs : Execute(c)

Next == Create \/ Update \/ Delete \/ Clear \/ Select \/ Deselect \/ Other

Spec == Init /\ [][Next]_vars

\* -------------------------------------------------------------- the parser
\* A message is a sequence of lines (message.split("\n")), a line a sequence
\* of lexical chunks.  A chunk is the unit the two regular expressions can
\* tell apart: the literal "/canvas", a run of white space, a maximal run of
\* word characters (\w+), the fence ```, or other text, which starts with a
\* character that is neither a word character nor white space.  open says
\* that the chunk starts with [ or {, close that it ends with ] or }.
Chunk(cls, text, open, close) ==
  [cls |-> cls, s |-> text, open |-> open, close |-> close]
SlashCanvas == Chunk("slashcanvas", "/canvas", FALSE, FALSE)
Sp == Chunk("ws", " ", FALSE, FALSE)
Nl == Chunk("ws", "\n", FALSE, FALSE)
Word(text) == Chunk("word", text, FALSE, FALSE)
Txt(text) == Chunk("other", text, FALSE, FALSE)
Bracketed(text) == Chunk("other", text, TRUE, TRUE)
\* (a TLA+ string cannot hold a backquote: the fence text is written with quotes)
Fence == Chunk("fence", "'''", FALSE, FALSE)

RECURSIVE Join(_)
Join(chunks) ==
  IF chunks = <<>> THEN "" ELSE Head(chunks).s \o Join(Tail(chunks))

\* message text as one chunk sequence, the lines joined by "\n"
RECURSIVE Flatten(_)
Flatten(lines) ==
  IF lines = <<>> THEN <<>>
  ELSE IF Len(lines) = 1 THEN Head(lines)
  ELSE Head(lines) \o <<Nl>> \o Flatten(Tail(lines))

Min(S) == CHOOSE x \in S : \A y \in S : x <= y

\* String.prototype.toLowerCase on the words the messages use
ToLowerCase(text) ==
  CASE text = "CREATE" -> "create"
    [] text = "Circle" -> "circle"
    [] text = "JSON" -> "json"
    [] OTHER -> text

\* texts the messages carry in a uuid's place: the uuid itself splits at its
\* first hyphen into a word and other text
IdText(head, tail) == [head |-> head, tail |-> tail]
IdTextOf(t) == t.head \o t.tail
AllIdTexts ==
  {IdText(UuidHead(n), UuidTail) : n \in 1..MaxUuid}
    \cup {IdText("bogus", "-id")}

\* JSON.parse: the value of each JSON text the messages carry; any other
\* text is a SyntaxError
SyntaxError == Prim("throw", "SyntaxError")
JsonArray(items) == [t |-> "array", v |-> "", o |-> items]
FirstBlockText == "{\"command\":\"select\",\"elementId\":\"first-block\"}"
LaterBlockText == "{\"command\":\"select\",\"elementId\":\"later-block\"}"
ColorPatchText == "{\"color\": \"#00ff00\"}"
RedCircleText == "{\"radius\": 2, \"color\": \"#ff0000\"}"
IdPatchText == "{\"id\": \"bogus-id\"}"
HiThenClearText ==
  "[{\"command\":\"create\",\"elementType\":\"text\",\"params\":{\"text\":\"Hi\"}}, {\"command\":\"clear\"}]"
NullEntryText == "[null, {\"command\":\"create\",\"elementType\":\"text\"}]"
NoCommandText == "{\"note\": 1}"
BrokenJsonText == "{radius: 2]"
FencedDeleteText(id) ==
  "{\"command\":\"delete\",\"elementId\":\"" \o id \o "\"}"
FencedUpdateText(id) ==
  "{\"command\":\"update\",\"elementId\":\"" \o id
     \o "\",\"params\":{\"color\":\"#00ff00\"}}"
FencedSelectText(id) ==
  "{\"command\":\"select\",\"elementId\":\"" \o id \o "\"}"
JsonTable ==
  { <<ColorPatchText, Obj([color |-> Str("#00ff00")])>>,
    <<RedCircleText, Obj([radius |-> Num("2"), color |-> Str("#ff0000")])>>,
    <<IdPatchText, Obj([id |-> Str("bogus-id")])>>,
    <<"null", Null>>,
    <<HiThenClearText,
      JsonArray(<<Command([command |-> Str("create"),
                           elementType |-> Str("text"),
                           params |-> Obj([text |-> Str("Hi")])]),
                  Command([command |-> Str("clear")])>>)>>,
    <<NullEntryText,
      JsonArray(<<Null, Command([command |-> Str("create"),
                                 elementType |-> Str("text")])>>)>>,
    <<NoCommandText, Obj([note |-> Num("1")])>>,
    <<FirstBlockText, Command([command |-> Str("select"),
                               elementId |-> Str("first-block")])>>,
    <<LaterBlockText, Command([command |-> Str("select"),
                               elementId |-> Str("later-block")])>> }
  \cup { <<FencedDeleteText(IdTextOf(t)),
           Command([command |-> Str("delete"),
                    elementId |-> Str(IdTextOf(t))])>> : t \in AllIdTexts }
  \cup { <<FencedUpdateText(IdTextOf(t)),
           Command([command |-> Str("update"),
                    elementId |-> Str(IdTextOf(t)),
                    params |-> Obj([color |-> Str("#00ff00")])])>> :
           t \in AllIdTexts }
  \cup { <<FencedSelectText(IdTextOf(t)),
           Command([command |-> Str("select"),
                    elementId |-> Str(IdTextOf(t))])>> : t \in AllIdTexts }
JsonParse(text) ==
  IF \E p \in JsonTable : p[1] = text
  THEN (CHOOSE p \in JsonTable : p[1] = text)[2]
  ELSE SyntaxError

\* the pattern without its "/canvas" prefix: any line with a word matches
COMMAND_PATTERNNoPrefix(line) ==
  LET n == Len(line)
      starts == {i \in 1..n : line[i].cls = "word"}
  IN IF starts = {}
     THEN [matched |-> FALSE, command |-> "", elementType |-> Undefined,
           paramsStr |-> Undefined]
     ELSE
       LET i == Min(starts)
           has2 == /\ i + 2 <= n
                   /\ line[i + 1].cls = "ws"
                   /\ line[i + 2].cls = "word"
           j == IF has2 THEN i + 3 ELSE i + 1
           has3 == j + 1 <= n /\ line[j].cls = "ws"
       IN [matched |-> TRUE,
           command |-> line[i].s,
           elementType |-> IF has2 THEN Str(line[i + 2].s) ELSE Undefined,
           paramsStr |-> IF has3 THEN Str(Join(SubSeq(line, j + 1, n)))
                         ELSE Undefined]

\* line.match(/\/canvas\s+(\w+)(?:\s+(\w+))?(?:\s+(.+))?/i): the leftmost
\* "/canvas", white space and a word; then, greedily, white space and a
\* second word; then white space and the rest of the line
COMMAND_PATTERN(line) ==
  LET n == Len(line)
      starts == {i \in 1..n : /\ i + 2 <= n
                              /\ line[i].cls = "slashcanvas"
                              /\ line[i + 1].cls = "ws"
                              /\ line[i + 2].cls = "word"}
  IN IF starts = {}
     THEN [matched |-> FALSE, command |-> "", elementType |-> Undefined,
           paramsStr |-> Undefined]
     ELSE
       LET i == Min(starts)
           has2 == /\ i + 4 <= n
                   /\ line[i + 3].cls = "ws"
                   /\ line[i + 4].cls = "word"
           j == IF has2 THEN i + 5 ELSE i + 3
           has3 == j + 1 <= n /\ line[j].cls = "ws"
       IN [matched |-> TRUE,
           command |-> line[i + 2].s,
           elementType |-> IF has2 THEN Str(line[i + 4].s) ELSE Undefined,
           paramsStr |-> IF has3 THEN Str(Join(SubSeq(line, j + 1, n)))
                         ELSE Undefined]

\* the inline loop of parseCanvasCommands over the lines of a message
RECURSIVE InlineCommands(_)
InlineCommands(lines) ==
  IF lines = <<>> THEN <<>>
  ELSE
    LET match == COMMAND_PATTERN(Head(lines))
        parsed == JsonParse(match.paramsStr.v)
        params == IF Truthy(match.paramsStr)
                  THEN IF parsed = SyntaxError
                       THEN Obj([text |-> match.paramsStr])
                       ELSE parsed
                  ELSE Obj(NoProps)
        command ==
          Command([command |-> Str(ToLowerCase(match.command)),
                   elementType |->
                     IF match.elementType = Undefined THEN Undefined
                     ELSE Str(ToLowerCase(match.elementType.v)),
                   params |-> params])
    IN (IF match.matched THEN <<command>> ELSE <<>>)
         \o InlineCommands(Tail(lines))

\* the pattern matched at the last fence that opens a block, not the first
JSON_PATTERNLast(lines) ==
  LET text == Flatten(lines)
      n == Len(text)
      \* first position at or after i that is not white space
      SkipWs(i) == Min({k \in i..(n + 1) :
                          k = n + 1 \/ text[k].cls # "ws"})
      AfterTag(i) ==
        IF i + 1 <= n /\ text[i + 1].cls = "word"
                      /\ ToLowerCase(text[i + 1].s) = "json"
        THEN i + 2 ELSE i + 1
      BodyStart(i) == SkipWs(AfterTag(i))
      Closes(p) == {q \in p..n :
                      /\ text[q].close
                      /\ SkipWs(q + 1) <= n
                      /\ text[SkipWs(q + 1)].cls = "fence"}
      starts == {i \in 1..n :
                   /\ text[i].cls = "fence"
                   /\ BodyStart(i) <= n
                   /\ text[BodyStart(i)].open
                   /\ Closes(BodyStart(i)) # {}}
  IN IF starts = {} THEN Undefined
     ELSE LET last == CHOOSE x \in starts : \A y \in starts : y <= x
              p == BodyStart(last)
          IN Str(Join(SubSeq(text, p, Min(Closes(p)))))

\* message.match(/```(?:json)?\s*([\[\{][\s\S]*?[\]\}])\s*```/i): the
\* leftmost fence that is followed by an optional "json", white space and a
\* chunk starting with [ or {, for which some chunk ending with ] or } is
\* followed by white space and a fence; the capture runs from the opening
\* chunk to the first such closing chunk
JSON_PATTERN(lines) ==
  LET text == Flatten(lines)
      n == Len(text)
      \* first position at or after i that is not white space
      SkipWs(i) == Min({k \in i..(n + 1) :
                          k = n + 1 \/ text[k].cls # "ws"})
      AfterTag(i) ==
        IF i + 1 <= n /\ text[i + 1].cls = "word"
                      /\ ToLowerCase(text[i + 1].s) = "json"
        THEN i + 2 ELSE i + 1
      BodyStart(i) == SkipWs(AfterTag(i))
      Closes(p) == {q \in p..n :
                      /\ text[q].close
                      /\ SkipWs(q + 1) <= n
                      /\ text[SkipWs(q + 1)].cls = "fence"}
      starts == {i \in 1..n :
                   /\ text[i].cls = "fence"
                   /\ BodyStart(i) <= n
                   /\ text[BodyStart(i)].open
                   /\ Closes(BodyStart(i)) # {}}
  IN IF starts = {} THEN Undefined
     ELSE LET p == BodyStart(Min(starts))
          IN Str(Join(SubSeq(text, p, Min(Closes(p)))))

\* a parser that keeps only the entries of a fenced array that are objects
\* with a command
IsCommandObject(x) == x.t = "object" /\ Truthy(Prop(x, "command"))
parseCanvasCommandsCheckedEntries(message) ==
  LET inline == InlineCommands(message)
      jsonMatch == JSON_PATTERN(message)
      jsonData == JsonParse(jsonMatch.v)
  IN IF ~Truthy(jsonMatch) \/ jsonData = SyntaxError THEN inline
     ELSE IF jsonData.t = "array"
          THEN inline \o SelectSeq(jsonData.o, IsCommandObject)
     ELSE IF Truthy(Prop(jsonData, "command")) THEN inline \o <<jsonData>>
     ELSE inline

\* a parser for which a dropped block drops the inline commands too
parseCanvasCommandsBlockFatal(message) ==
  LET inline == InlineCommands(message)
      jsonMatch == JSON_PATTERN(message)
      jsonData == JsonParse(jsonMatch.v)
  IN IF ~Truthy(jsonMatch) THEN inline
     ELSE IF jsonData = SyntaxError THEN <<>>
     ELSE IF jsonData.t = "array" THEN inline \o jsonData.o
     ELSE IF Truthy(Prop(jsonData, "command")) THEN inline \o <<jsonData>>
     ELSE <<>>

\* a parser that puts the commands of the fenced block first
parseCanvasCommandsFencedFirst(message) ==
  LET inline == InlineCommands(message)
      jsonMatch == JSON_PATTERN(message)
      jsonData == JsonParse(jsonMatch.v)
  IN IF ~Truthy(jsonMatch) \/ jsonData = SyntaxError THEN inline
     ELSE IF jsonData.t = "array" THEN jsonData.o \o inline
     ELSE IF Truthy(Prop(jsonData, "command")) THEN <<jsonData>> \o inline
     ELSE inline

parseCanvasCommands(message) ==
  LET inline == InlineCommands(message)
      jsonMatch == JSON_PATTERN(message)
      jsonData == JsonParse(jsonMatch.v)
  IN IF ~Truthy(jsonMatch) \/ jsonData = SyntaxError THEN inline
     ELSE IF jsonData.t = "array" THEN inline \o jsonData.o
     ELSE IF Truthy(Prop(jsonData, "command")) THEN inline \o <<jsonData>>
     ELSE inline

\* commands.map(executeCanvasCommand): the commands run in order on the
\* store; an exception ends the map, keeping what earlier commands did
RECURSIVE MapExecute(_, _, _)
MapExecute(st, commands, rets) ==
  IF commands = <<>> THEN [st |-> st, rets |-> rets, threw |-> FALSE]
  ELSE LET r == executeCanvasCommand(st, Head(commands))
       IN IF r.ret = TypeError
          THEN [st |-> r.st, rets |-> rets, threw |-> TRUE]
          ELSE MapExecute(r.st, Tail(commands), Append(rets, r.ret))

processAIMessage(st, message) ==
  MapExecute(st, parseCanvasCommands(message), <<>>)

\* ---------------------------------------------------------------- messages
IdTexts(st) ==
  {IdText(UuidHead(n), UuidTail) : n \in 1..st.uuidCount}
    \cup {IdText("bogus", "-id")}

Prose == <<Word("Here"), Sp, Word("you"), Sp, Word("go"), Txt(":")>>
CreateCircleLine ==
  <<SlashCanvas, Sp, Word("create"), Sp, Word("circle"), Sp,
    Bracketed(RedCircleText)>>
CreateTextLine == <<SlashCanvas, Sp, Word("CREATE"), Sp, Word("text")>>
CreateNullLine ==
  <<SlashCanvas, Sp, Word("create"), Sp, Word("circle"), Sp, Word("null")>>
CreateHexagonLine == <<SlashCanvas, Sp, Word("create"), Sp, Word("hexagon")>>
ClearLine == <<Sp, Sp, SlashCanvas, Sp, Word("clear")>>
DeleteLine(t) ==
  <<SlashCanvas, Sp, Word("delete"), Sp, Word(t.head), Txt(t.tail)>>
UpdateLine(t) ==
  <<SlashCanvas, Sp, Word("update"), Sp, Word(t.head), Txt(t.tail), Sp,
    Bracketed(ColorPatchText)>>
\* a fenced block: the opening fence with its language tag, the body, the
\* closing fence, each on a line of its own
Fenced(body) == <<<<Fence, Word("json")>>, <<body>>, <<Fence>>>>

\* messages with inline lines and a fenced block: the block first, the
\* block last, the block between two inline lines
FenceThenInline == Fenced(Bracketed(HiThenClearText)) \o <<CreateTextLine>>
InlineThenFence == <<CreateTextLine>> \o Fenced(Bracketed(HiThenClearText))
FenceBetweenInline ==
  <<CreateTextLine>> \o Fenced(Bracketed(FencedSelectText("bogus-id")))
    \o <<ClearLine>>

\* a tail that is no JSON text
CreateHelloLine ==
  <<SlashCanvas, Sp, Word("create"), Sp, Word("text"), Sp, Word("Hello"),
    Sp, Word("there")>>
CreateGreenTextLine ==
  <<SlashCanvas, Sp, Word("create"), Sp, Word("text"), Sp,
    Bracketed(ColorPatchText)>>
\* messages whose block is dropped: text JSON.parse rejects, and an object
\* without command
BrokenThenInline ==
  Fenced(Chunk("other", BrokenJsonText, TRUE, TRUE)) \o <<CreateTextLine>>
InlineThenNoCommand ==
  <<CreateGreenTextLine>> \o Fenced(Bracketed(NoCommandText))

\* a fenced block of program text, tagged js
JsBlock == <<<<Fence, Word("js")>>, <<Word("draw"), Txt("();")>>, <<Fence>>>>
\* messages with two fenced blocks
TwoBlocks ==
  Fenced(Bracketed(FirstBlockText)) \o Fenced(Bracketed(LaterBlockText))
BrokenThenBlock ==
  Fenced(Chunk("other", BrokenJsonText, TRUE, TRUE))
    \o Fenced(Bracketed(LaterBlockText))
JsThenBlock == JsBlock \o Fenced(Bracketed(LaterBlockText))

MessageInputs(st) ==
  { FenceThenInline, InlineThenFence, FenceBetweenInline,
    BrokenThenInline, InlineThenNoCommand,
    TwoBlocks, BrokenThenBlock, JsThenBlock,
    <<CreateHelloLine>>,
    <<Prose, CreateCircleLine>>,
    <<CreateTextLine>>,
    <<CreateNullLine, CreateTextLine>>,
    <<CreateHexagonLine, CreateTextLine>>,
    <<ClearLine>>,
    <<Prose>>,
    <<Prose, <<Bracketed(FirstBlockText)>>>>,
    Fenced(Bracketed(HiThenClearText)),
    Fenced(Bracketed(NullEntryText)),
    Fenced(Bracketed(NoCommandText)) }
  \cup { <<DeleteLine(t)>> : t \in IdTexts(st) }
  \cup { <<UpdateLine(t)>> : t \in IdTexts(st) }
  \cup { Fenced(Bracketed(FencedDeleteText(IdTextOf(t)))) : t \in IdTexts(st) }
  \cup { Fenced(Bracketed(FencedUpdateText(IdTextOf(t)))) : t \in IdTexts(st) }
  \cup { Fenced(Bracketed(FencedSelectText(IdTextOf(t)))) : t \in IdTexts(st) }

\* one call of processAIMessage; results is the list it returns (none when
\* it throws), result the exception or the last command's return value
ProcessAIMessage(message) ==
  LET r == processAIMessage(Store, message)
  IN /\ calls < MaxMsgCalls
     /\ r.st.uuidCount <= MaxUuid
     /\ calls' = calls + 1
     /\ elements' = r.st.elements
     /\ selectedElementId' = r.st.selectedElementId
     /\ uuidCount' = r.st.uuidCount
     /\ results' = IF r.threw THEN <<>> ELSE r.rets
     /\ result' = IF r.threw THEN TypeError
                  ELSE IF r.rets = <<>> THEN Undefined
                  ELSE r.rets[Len(r.rets)]
     /\ UNCHANGED hvars
     /\ UNCHANGED tvars

MsgNext == \E m \in MessageInputs(Store) : ProcessAIMessage(m)

SpecMsg == Init /\ [][MsgNext]_vars

\* ------------------------------------------------- the content handler
\* content events of the client: a model turn with parts, or an event
\* without modelTurn; a part carries text or something else
ModelTurn(parts) == [modelTurn |-> [parts |-> parts]]
TextPart(message) == [text |-> message]
InlineDataPart == [inlineData |-> "image/png"]
TurnComplete == [turnComplete |-> TRUE]
ThrowThenCreate ==
  ModelTurn(<<TextPart(<<CreateNullLine, CreateTextLine>>),
              TextPart(<<CreateTextLine>>)>>)
ThreeCommands == ModelTurn(<<TextPart(FenceBetweenInline)>>)
ProseDataCreate ==
  ModelTurn(<<TextPart(<<Prose>>), InlineDataPart,
              TextPart(<<Prose, CreateCircleLine>>)>>)
ContentInputs == {ThrowThenCreate, ThreeCommands, ProseDataCreate, TurnComplete}

\* if (content.modelTurn && content.modelTurn.parts)
HasParts(content) ==
  "modelTurn" \in DOMAIN content /\ "parts" \in DOMAIN content.modelTurn
\* if (part.text)
HasText(part) == "text" \in DOMAIN part

\* the store after the forEach over the parts, each text part handed to
\* processAIMessage
RECURSIVE StoreAfterParts(_, _)
StoreAfterParts(st, parts) ==
  IF parts = <<>> THEN st
  ELSE StoreAfterParts(IF HasText(Head(parts))
                       THEN processAIMessage(st, Head(parts).text).st
                       ELSE st,
                       Tail(parts))

\* a handler that may start while another activation has not returned
HandlerMayStartAnytime(acts) == TRUE

\* handleContent, the forEach over the parts and processAIMessage are
\* synchronous: an activation returns before the next event is handled
HandlerMayStart(acts) == acts = <<>>

\* an exception that leaves the forEach: the parts not yet seen are dropped
AfterThrowUncaught(act) ==
  [act EXCEPT !.running = FALSE, !.commands = <<>>, !.parts = <<>>]

\* catch and finally inside the forEach callback: the callback returns and
\* the forEach goes on with the next part
AfterThrow(act) ==
  [act EXCEPT !.running = FALSE, !.commands = <<>>, !.parts = Tail(act.parts)]

\* the index, in the event's parts, of the part the activation is at
PartNo(act) == Len(act.all) - Len(act.parts) + 1

\* client emits "content": handleContent is called
Content(content) ==
  /\ events < MaxEvents
  /\ HandlerMayStart(activations)
  /\ HasParts(content) =>
       StoreAfterParts(Store, content.modelTurn.parts).uuidCount <= MaxUuid
  /\ events' = events + 1
  /\ activations' =
       IF HasParts(content)
       THEN Append(activations,
                   [event |-> events + 1,
                    all |-> content.modelTurn.parts,
                    parts |-> content.modelTurn.parts,
                    running |-> FALSE, commands |-> <<>>, cmdNo |-> 0,
                    rets |-> <<>>])
       ELSE activations
  /\ UNCHANGED <<elements, selectedElementId, uuidCount, result, results,
                 calls, processingCanvasCommand, log, trace, started>>
  /\ UNCHANGED tvars

\* a part without text: the callback returns at once
SkipPart(a) ==
  LET act == activations[a]
  IN /\ ~act.running
     /\ act.parts # <<>>
     /\ ~HasText(Head(act.parts))
     /\ activations' = [activations EXCEPT ![a].parts = Tail(act.parts)]
     /\ UNCHANGED <<elements, selectedElementId, uuidCount, result, results,
                    calls, processingCanvasCommand, log, events, trace,
                    started>>
     /\ UNCHANGED tvars

\* setProcessingCanvasCommand(true); processAIMessage parses the text
StartPart(a) ==
  LET act == activations[a]
  IN /\ ~act.running
     /\ act.parts # <<>>
     /\ HasText(Head(act.parts))
     /\ processingCanvasCommand' = TRUE
     /\ activations' =
          [activations EXCEPT
             ![a].running = TRUE,
             ![a].commands = parseCanvasCommands(Head(act.parts).text),
             ![a].cmdNo = 0,
             ![a].rets = <<>>]
     /\ started' = Append(started, <<act.event, PartNo(act)>>)
     /\ UNCHANGED <<elements, selectedElementId, uuidCount, result, results,
                    calls, log, events, trace>>
     /\ UNCHANGED tvars

\* commands.map calls executeCanvasCommand on the next command; when it
\* throws, the handler's catch logs canvas.error and its finally resets the
\* flag
ExecCommand(a) ==
  LET act == activations[a]
      r == executeCanvasCommand(Store, Head(act.commands))
  IN /\ act.running
     /\ act.commands # <<>>
     /\ r.st.uuidCount <= MaxUuid
     /\ elements' = r.st.elements
     /\ selectedElementId' = r.st.selectedElementId
     /\ uuidCount' = r.st.uuidCount
     /\ trace' = Append(trace, <<act.event, PartNo(act), act.cmdNo + 1>>)
     /\ IF r.ret = TypeError
        THEN /\ activations' = [activations EXCEPT ![a] = AfterThrow(act)]
             /\ log' = Append(log, "canvas.error")
             /\ processingCanvasCommand' = FALSE
        ELSE /\ activations' =
                  [activations EXCEPT
                     ![a].commands = Tail(act.commands),
                     ![a].cmdNo = act.cmdNo + 1,
                     ![a].rets = Append(act.rets, r.ret)]
             /\ UNCHANGED <<log, processingCanvasCommand>>
     /\ UNCHANGED <<result, results, calls, events, started>>
     /\ UNCHANGED tvars

\* processAIMessage returns the outcomes: they are logged when there are
\* any, and finally resets the flag
FinishPart(a) ==
  LET act == activations[a]
  IN /\ act.running
     /\ act.commands = <<>>
     /\ log' = IF Len(act.rets) > 0 THEN Append(log, "canvas.commands")
               ELSE log
     /\ processingCanvasCommand' = FALSE
     /\ activations' = [activations EXCEPT ![a].running = FALSE,
                                           ![a].parts = Tail(act.parts)]
     /\ UNCHANGED <<elements, selectedElementId, uuidCount, result, results,
                    calls, events, trace, started>>
     /\ UNCHANGED tvars

\* the forEach is through: handleContent returns
Return(a) ==
  LET act == activations[a]
  IN /\ ~act.running
     /\ act.parts = <<>>
     /\ activations' = SubSeq(activations, 1, a - 1)
                         \o SubSeq(activations, a + 1, Len(activations))
     /\ UNCHANGED <<elements, selectedElementId, uuidCount, result, results,
                    calls, processingCanvasCommand, log, events, trace,
                    started>>
     /\ UNCHANGED tvars

ContentNext ==
  \/ \E content \in ContentInputs : Content(content)
  \/ \E a \in 1..Len(activations) : SkipPart(a)
  \/ \E a \in 1..Len(activations) : StartPart(a)
  \/ \E a \in 1..Len(activations) : ExecCommand(a)
  \/ \E a \in 1..Len(activations) : FinishPart(a)
  \/ \E a \in 1..Len(activations) : Return(a)

SpecContent == Init /\ [][ContentNext]_vars

\* ------------------------------------------- the tests: parse, then process
\* testInlineCommands, testJsonCommands, testMixedCommands and the side
\* panel's test button call parseCanvasCommands on a message, log the list,
\* and then call processAIMessage on the same message.

\* a parse that also executes what it finds
parseCallExecuting(st, message) ==
  [st |-> processAIMessage(st, message).st,
   commands |-> parseCanvasCommands(message)]

\* the call of parseCanvasCommands as the store sees it: its body calls
\* neither useCanvasStore nor executeCanvasCommand
parseCall(st, message) ==
  [st |-> st, commands |-> parseCanvasCommands(message)]

\* const commands = parseCanvasCommands(message); console.log(..., commands)
\* (a test starts only when the creates of its message stay within MaxUuid)
TestParse(message) ==
  \E p \in {parseCall(Store, message)} :
     /\ testMessage = <<>>
     /\ calls < MaxMsgCalls
     /\ p.st.uuidCount
          + Cardinality({i \in 1..Len(p.commands) :
                           Prop(p.commands[i], "command") = Str("create")})
          <= MaxUuid
     /\ testMessage' = <<message>>
     /\ testCommands' = p.commands
     /\ elements' = p.st.elements
     /\ selectedElementId' = p.st.selectedElementId
     /\ uuidCount' = p.st.uuidCount
     /\ UNCHANGED <<result, results, calls>>
     /\ UNCHANGED hvars

\* const results = processAIMessage(message); console.log(..., results)
TestProcess ==
  /\ testMessage # <<>>
  /\ \E r \in {processAIMessage(Store, testMessage[1])} :
        /\ elements' = r.st.elements
        /\ selectedElementId' = r.st.selectedElementId
        /\ uuidCount' = r.st.uuidCount
        /\ results' = IF r.threw THEN <<>> ELSE r.rets
        /\ result' = IF r.threw THEN TypeError
                     ELSE IF r.rets = <<>> THEN Undefined
                     ELSE r.rets[Len(r.rets)]
  /\ calls' = calls + 1
  /\ testMessage' = <<>>
  /\ UNCHANGED testCommands
  /\ UNCHANGED hvars

\* the messages of the tests: inline commands after prose, a fenced block,
\* a block between inline commands, a message whose first command throws,
\* a clear, and prose alone
TestInputs ==
  { <<Prose, CreateCircleLine>>,
    Fenced(Bracketed(HiThenClearText)),
    FenceBetweenInline,
    <<CreateNullLine, CreateTextLine>>,
    <<ClearLine>>,
    <<Prose>> }

TestNext ==
  \/ \E m \in TestInputs : TestParse(m)
  \/ TestProcess

SpecTest == Init /\ [][TestNext]_vars

\* ------------------------------------------------------------------ claims
Ids(es) == [i \in 1..Len(es) |-> Get(es[i], "id")]
Types(es) == [i \in 1..Len(es) |-> Get(es[i], "type")]
SelectedIndexes == {i \in 1..Len(elements) :
                      Get(elements[i], "selected") = Bool(TRUE)}
HasElement(st, id) == \E i \in 1..Len(st.elements) : Ids(st.elements)[i] = id
IssuedIds == {Str(uuidv4(n)) : n \in 1..uuidCount}
KnownTypes == {Str("circle"), Str("rectangle"), Str("line"),
               Str("polygon"), Str("text"), Str("image")}
StoreUnchanged == /\ elements' = elements
                  /\ selectedElementId' = selectedElementId

\* C1: the ids of the elements flagged selected are exactly
\* {selectedElementId} when it is non-null, and none when it is null.
C1_FlagsMatchSelectedId ==
  {Get(elements[i], "id") : i \in SelectedIndexes}
    = IF selectedElementId # Null THEN {selectedElementId} ELSE {}

\* C2: at most one element has selected = true.
C2_AtMostOneSelected == Cardinality(SelectedIndexes) <= 1

\* C3: no two elements of the store have the same id.
C3_UniqueIds ==
  \A i, j \in 1..Len(elements) :
     i # j => Get(elements[i], "id") # Get(elements[j], "id")

\* C4: every create command with a known elementType adds exactly one
\* element and returns an id no earlier create returned.
C4_CreateAddsOneFreshId ==
  [][\A c \in CreateInputs :
       (Execute(c) /\ Prop(c, "elementType") \in KnownTypes)
         => /\ Len(elements') = Len(elements) + 1
            /\ result'.t = "string"
            /\ result' \notin IssuedIds
            /\ Get(elements'[Len(elements')], "id") = result']_vars

\* C5: an update command never changes the id of an element, whatever
\* the patch contains.
C5_UpdateKeepsIds ==
  [][\A c \in UpdateInputs(Store) :
       Execute(c) => Ids(elements') = Ids(elements)]_vars

\* C6: no command changes the type of an element that stays in the store,
\* and an update of an existing element whose patch names a type returns
\* the element's id (it succeeds) and leaves every type as it was.
C6_TypeImmutable ==
  [][/\ Len(elements') = Len(elements) => Types(elements') = Types(elements)
     /\ Len(elements') > Len(elements) =>
          SubSeq(Types(elements'), 1, Len(elements)) = Types(elements)
     /\ Len(elements') < Len(elements) =>
          \A j \in 1..Len(elements') :
             \E i \in 1..Len(elements) : elements'[j] = elements[i]
     /\ \A c \in UpdateInputs(Store) :
          ( /\ Execute(c)
            /\ HasElement(Store, Prop(c, "elementId"))
            /\ Prop(c, "params").t = "object"
            /\ "type" \in DOMAIN Prop(c, "params").o )
          => /\ result' = Prop(c, "elementId")
             /\ Types(elements') = Types(elements)]_vars
\* an element created as a circle was updated with the patch
\* {type: "rectangle", color: "#00ff00"}: the colour arrived, the type did not
C6_Witness ==
  \E i \in 1..Len(elements) :
     /\ Get(elements[i], "type") = Str("circle")
     /\ Get(elements[i], "color") = Str("#00ff00")
     /\ result = Get(elements[i], "id")

\* C7: an update naming an id that is not in the store returns a failure
\* (undefined, not an id) and leaves the store unchanged.
C7_UpdateAbsentFails ==
  [][\A c \in UpdateInputs(Store) :
       ( /\ Execute(c)
         /\ Truthy(Prop(c, "elementId"))
         /\ ~HasElement(Store, Prop(c, "elementId")) )
       => (result' = Undefined /\ StoreUnchanged)]_vars

\* C8: the executor never throws.
C8_NeverThrows == result # TypeError

\* the batch as the claim describes it: every command is attempted in
\* order, and one that fails leaves a failure marker and the store as it was
RECURSIVE AttemptAll(_, _, _)
AttemptAll(st, commands, rets) ==
  IF commands = <<>> THEN [st |-> st, rets |-> rets]
  ELSE LET r == executeCanvasCommand(st, Head(commands))
       IN AttemptAll(r.st, Tail(commands),
                     Append(rets, IF r.ret = TypeError THEN Undefined
                                  ELSE r.ret))

\* C9: processing a message executes every parsed command in parser order
\* and returns one outcome per command; a failing command does not keep
\* the later ones from running.
C9_BatchRunsEveryCommand ==
  [][\A m \in MessageInputs(Store) :
       ProcessAIMessage(m) =>
         LET want == AttemptAll(Store, parseCanvasCommands(m), <<>>)
         IN /\ Len(results') = Len(parseCanvasCommands(m))
            /\ results' = want.rets
            /\ elements' = want.st.elements
            /\ selectedElementId' = want.st.selectedElementId]_vars

\* C10: the inline line "/canvas delete <id>" removes the element with that
\* id, and "/canvas update <id> {json}" sets the JSON's fields on it, when
\* <id> is the id of an element in the store.
C10_InlineDeleteAndUpdateById ==
  [][\A t \in IdTexts(Store) :
       HasElement(Store, Str(IdTextOf(t))) =>
         /\ ProcessAIMessage(<<DeleteLine(t)>>) =>
              \A i \in 1..Len(elements') :
                 Get(elements'[i], "id") # Str(IdTextOf(t))
         /\ ProcessAIMessage(<<UpdateLine(t)>>) =>
              \A i \in 1..Len(elements') :
                 Get(elements'[i], "id") = Str(IdTextOf(t))
                   => Get(elements'[i], "color") = Str("#00ff00")]_vars

\* C11: processing the inline line
\* /canvas update bogus-id {"color": "#00ff00"}, bogus-id never created,
\* yields the failure "not found" for that command and leaves the store
\* unchanged.
BogusIdText == IdText("bogus", "-id")
C11_InlineUpdateBogusNotFound ==
  [][ProcessAIMessage(<<UpdateLine(BogusIdText)>>) =>
       /\ results' = <<Undefined>>
       /\ StoreUnchanged
       /\ consoleError(Store,
                       parseCanvasCommands(<<UpdateLine(BogusIdText)>>)[1])
            = "Element with ID not found"]_vars

\* the fields a command's params name (none when params is absent or null)
PatchOf(c) == Prop(c, "params").o

\* C12: an update command on an existing element returns the elementId,
\* sets each field of the patch on that element, keeps the element's other
\* fields, and leaves every other element and the order unchanged.
C12_UpdateSetsPatchOnly ==
  [][\A c \in UpdateInputs(Store) :
       (Execute(c) /\ HasElement(Store, Prop(c, "elementId"))) =>
         /\ result' = Prop(c, "elementId")
         /\ Len(elements') = Len(elements)
         /\ \A i \in 1..Len(elements) :
              IF Get(elements[i], "id") = Prop(c, "elementId")
              THEN /\ \A k \in DOMAIN PatchOf(c) :
                         Get(elements'[i], k) = PatchOf(c)[k]
                   /\ \A k \in (DOMAIN elements[i]) \ (DOMAIN PatchOf(c)) :
                         Get(elements'[i], k) = elements[i][k]
              ELSE elements'[i] = elements[i]]_vars

\* the store after the step
StoreNext == [elements |-> elements',
              selectedElementId |-> selectedElementId',
              uuidCount |-> uuidCount']

\* C13: delete is idempotent: a delete returns its elementId, and the same
\* delete executed again right after returns the id again and leaves the
\* store as the first delete left it.
C13_DeleteIdempotent ==
  [][\A c \in DeleteInputs(Store) :
       (Execute(c) /\ Truthy(Prop(c, "elementId"))) =>
         /\ result' = Prop(c, "elementId")
         /\ executeCanvasCommand(StoreNext, c)
              = Outcome(StoreNext, Prop(c, "elementId"))]_vars
\* a delete returned an id the store once issued and no longer holds
C13_Witness ==
  /\ calls >= 3
  /\ result \in IssuedIds
  /\ ~HasElement(Store, result)
  /\ selectedElementId = Null

\* C14: removing an element that is in the store takes it out of the
\* sequence, keeps every other element and their order, and sets
\* selectedElementId to null if it was the removed id and leaves it
\* unchanged otherwise.
C14_RemovePresent ==
  [][\A c \in DeleteInputs(Store) :
       (Execute(c) /\ HasElement(Store, Prop(c, "elementId"))) =>
         LET id == Prop(c, "elementId")
             kept == {i \in 1..Len(elements) : Get(elements[i], "id") # id}
         IN /\ ~HasElement(StoreNext, id)
            /\ Len(elements') = Cardinality(kept)
            /\ \A i \in kept :
                 elements'[Cardinality({j \in kept : j <= i})] = elements[i]
            /\ selectedElementId' =
                 IF selectedElementId = id THEN Null
                 ELSE selectedElementId]_vars
\* the selected one of two elements was deleted: the other is left, with
\* its flag cleared by the select, and nothing is selected
C14_Witness ==
  /\ uuidCount = 2
  /\ Len(elements) = 1
  /\ Get(elements[1], "selected") = Bool(FALSE)
  /\ selectedElementId = Null
  /\ result \in IssuedIds
  /\ ~HasElement(Store, result)

\* C15: a delete whose id is not in the sequence changes neither the
\* sequence nor selectedElementId.
C15_RemoveAbsentNoOp ==
  [][\A c \in DeleteInputs(Store) :
       ( /\ Execute(c)
         /\ Truthy(Prop(c, "elementId"))
         /\ ~HasElement(Store, Prop(c, "elementId")) )
       => StoreUnchanged]_vars

\* C16: when an existing element A is selected and select(B) is executed
\* for another existing element B, afterwards exactly the elements with id
\* B have selected = true and selectedElementId is B.
C16_SelectMovesSelection ==
  [][\A c \in SelectInputs(Store) :
       ( /\ Execute(c)
         /\ HasElement(Store, Prop(c, "elementId"))
         /\ HasElement(Store, selectedElementId)
         /\ selectedElementId # Prop(c, "elementId") )
       => /\ selectedElementId' = Prop(c, "elementId")
          /\ result' = Prop(c, "elementId")
          /\ \A i \in 1..Len(elements') :
               (Get(elements'[i], "selected") = Bool(TRUE))
                 <=> (Get(elements'[i], "id") = Prop(c, "elementId"))]_vars
\* two elements, the second selected after the first: the first's flag is
\* false, the second's true
C16_Witness ==
  /\ calls = 4
  /\ Ids(elements) = <<Str(uuidv4(1)), Str(uuidv4(2))>>
  /\ Get(elements[1], "selected") = Bool(FALSE)
  /\ Get(elements[2], "selected") = Bool(TRUE)
  /\ selectedElementId = Str(uuidv4(2))
  /\ result = Str(uuidv4(2))

\* C17: executing deselect leaves selectedElementId null and no element
\* with selected = true, and returns no id.
C17_DeselectClears ==
  [][Deselect =>
       /\ selectedElementId' = Null
       /\ \A i \in 1..Len(elements') :
            Get(elements'[i], "selected") # Bool(TRUE)
       /\ Len(elements') = Len(elements)
       /\ result' = Undefined]_vars
\* an element was selected and then deselected
C17_Witness ==
  /\ calls = 3
  /\ Len(elements) = 1
  /\ Get(elements[1], "selected") = Bool(FALSE)
  /\ selectedElementId = Null
  /\ result = Undefined

\* C18: executing clear leaves the sequence empty and selectedElementId
\* null, and returns no id.
C18_ClearEmpties ==
  [][Clear =>
       /\ elements' = <<>>
       /\ selectedElementId' = Null
       /\ result' = Undefined]_vars
\* two elements were created and the third call left none: only clear
\* removes two elements at once
C18_Witness ==
  /\ calls = 3
  /\ uuidCount = 2
  /\ elements = <<>>
  /\ selectedElementId = Null
  /\ result = Undefined

\* a returned value that is no element id: anything but a non-empty string
NoIdReturned(x) == x.t # "string" \/ x = Str("")

\* C19: a create command whose elementType is present and none of circle,
\* rectangle, line, polygon, text, image returns no id and leaves the
\* elements, selectedElementId and the id counter unchanged.
C19_UnknownTypeFails ==
  [][\A c \in CreateInputs :
       ( /\ Execute(c)
         /\ Truthy(Prop(c, "elementType"))
         /\ Prop(c, "elementType") \notin KnownTypes )
       => /\ NoIdReturned(result')
          /\ StoreUnchanged
          /\ uuidCount' = uuidCount]_vars
\* an unknown type was asked for on a store with one element: the empty
\* string came back and the element is alone
C19_Witness ==
  /\ calls = 2
  /\ result = Str("")
  /\ Len(elements) = 1
  /\ uuidCount = 1

\* the command lacks the argument its verb requires
MissingArgument(c) ==
  \/ /\ Prop(c, "command") = Str("create")
     /\ Prop(c, "elementType") = Undefined
  \/ /\ Prop(c, "command") \in {Str("update"), Str("delete"), Str("select")}
     /\ Prop(c, "elementId") = Undefined

\* C20: create without elementType, and update, delete or select without
\* elementId, return undefined and leave elements, selectedElementId and
\* the id counter unchanged.
C20_MissingArgumentFails ==
  [][\A c \in CreateInputs \cup UpdateInputs(Store)
                \cup DeleteInputs(Store) \cup SelectInputs(Store) :
       (Execute(c) /\ MissingArgument(c))
       => /\ result' = Undefined
          /\ StoreUnchanged
          /\ uuidCount' = uuidCount]_vars
\* an element was created and selected, and the third call returned
\* undefined with the selection still in place
C20_Witness ==
  /\ calls = 3
  /\ result = Undefined
  /\ Len(elements) = 1
  /\ selectedElementId = Get(elements[1], "id")
  /\ Get(elements[1], "selected") = Bool(TRUE)

Verbs == {Str("create"), Str("update"), Str("delete"), Str("clear"),
          Str("select"), Str("deselect")}

\* C21: a command whose verb is none of create, update, delete, clear,
\* select, deselect returns undefined, is reported as an unknown command,
\* and leaves elements, selectedElementId and the id counter unchanged.
C21_UnknownVerbFails ==
  [][\A c \in OtherInputs :
       ( /\ Execute(c)
         /\ c.t \notin {"null", "undefined"}
         /\ Prop(c, "command") \notin Verbs )
       => /\ result' = Undefined
          /\ consoleError(Store, c) = "Unknown command"
          /\ StoreUnchanged
          /\ uuidCount' = uuidCount]_vars
\* two elements, the second selected, and a fourth call that returned
\* undefined and left all of it in place
C21_Witness ==
  /\ calls = 4
  /\ result = Undefined
  /\ Len(elements) = 2
  /\ selectedElementId = Get(elements[2], "id")
  /\ Get(elements[2], "selected") = Bool(TRUE)

\* the defaults the variants are said to have
CommonDefaults ==
  [position |-> Arr("[0,0,0]"), rotation |-> Arr("[0,0,0]"),
   scale |-> Arr("[1,1,1]"), color |-> Str("#ffffff"), opacity |-> Num("1")]
VariantDefaults(elementType) ==
  CASE elementType = Str("circle") ->
         [radius |-> Num("1"), filled |-> Bool(TRUE), lineWidth |-> Num("1")]
    [] elementType = Str("rectangle") ->
         [width |-> Num("2"), height |-> Num("1")]
    [] elementType = Str("text") ->
         [text |-> Str("Text"), fontSize |-> Num("1")]
    [] elementType = Str("image") ->
         [url |-> Str("/logo.jpg"), width |-> Num("3"), height |-> Num("2")]
    [] OTHER -> NoProps
Defaults(elementType) == Spread(CommonDefaults, VariantDefaults(elementType))
\* the fields a create command's params carry
GivenFields(c) ==
  IF Prop(c, "params").t = "object" THEN DOMAIN Prop(c, "params").o ELSE {}
RedCircle ==
  Command([command |-> Str("create"), elementType |-> Str("circle"),
           params |-> Obj([radius |-> Num("2"), color |-> Str("#ff0000")])])

\* C22: a create command for a known variant appends one element of that
\* variant in which every field absent from params has the variant's
\* default; a circle created with radius 2 and color #ff0000 has radius 2,
\* color #ff0000, opacity 1 and filled true.
C22_CreateFillsDefaults ==
  [][\A c \in CreateInputs :
       (Execute(c) /\ Prop(c, "elementType") \in KnownTypes)
       => /\ Len(elements') = Len(elements) + 1
          /\ LET e == elements'[Len(elements')]
                 d == Defaults(Prop(c, "elementType"))
             IN /\ Get(e, "type") = Prop(c, "elementType")
                /\ \A f \in (DOMAIN d) \ GivenFields(c) : Get(e, f) = d[f]
                /\ c = RedCircle =>
                     /\ Get(e, "radius") = Num("2")
                     /\ Get(e, "color") = Str("#ff0000")
                     /\ Get(e, "opacity") = Num("1")
                     /\ Get(e, "filled") = Bool(TRUE)]_vars
\* the same with the commands left aside whose params is null
C22_CreateFillsDefaultsNonNull ==
  [][\A c \in CreateInputs :
       ( /\ Execute(c)
         /\ Prop(c, "elementType") \in KnownTypes
         /\ Prop(c, "params") # Null )
       => /\ Len(elements') = Len(elements) + 1
          /\ LET e == elements'[Len(elements')]
                 d == Defaults(Prop(c, "elementType"))
             IN /\ Get(e, "type") = Prop(c, "elementType")
                /\ \A f \in (DOMAIN d) \ GivenFields(c) : Get(e, f) = d[f]
                /\ c = RedCircle =>
                     /\ Get(e, "radius") = Num("2")
                     /\ Get(e, "color") = Str("#ff0000")
                     /\ Get(e, "opacity") = Num("1")
                     /\ Get(e, "filled") = Bool(TRUE)]_vars

\* the lines of a message that hold "/canvas", and the other lines
IsCanvasLine(line) == \E i \in 1..Len(line) : line[i].cls = "slashcanvas"
IsOtherLine(line) == ~IsCanvasLine(line)
CanvasLines(message) == SelectSeq(message, IsCanvasLine)
OtherLines(message) == SelectSeq(message, IsOtherLine)
InlineCreateText ==
  Command([command |-> Str("create"), elementType |-> Str("text"),
           params |-> Obj(NoProps)])
InlineClear ==
  Command([command |-> Str("clear"), elementType |-> Undefined,
           params |-> Obj(NoProps)])
HiThenClear == JsonParse(HiThenClearText).o

\* C23: the parser returns the commands of the "/canvas" lines in line
\* order followed by the commands of the fenced block, wherever the block
\* stands in the text, and the commands are executed in that order: a
\* block [create text, clear] written before an inline create still leaves
\* the store empty.
C23_InlineBeforeFenced ==
  [][\A m \in MessageInputs(Store) :
       (CanvasLines(m) # <<>> /\ OtherLines(m) # <<>> /\ ProcessAIMessage(m)) =>
         /\ parseCanvasCommands(m)
              = parseCanvasCommands(CanvasLines(m))
                  \o parseCanvasCommands(OtherLines(m))
         /\ m \in {FenceThenInline, InlineThenFence} =>
              /\ parseCanvasCommands(m) = <<InlineCreateText>> \o HiThenClear
              /\ Len(results') = 3
              /\ results'[1] = Str(uuidv4(uuidCount + 1))
              /\ results'[2] = Str(uuidv4(uuidCount + 2))
              /\ results'[3] = Undefined
              /\ elements' = <<>>
         /\ m = FenceBetweenInline =>
              /\ parseCanvasCommands(m)
                   = <<InlineCreateText, InlineClear,
                       JsonParse(FencedSelectText("bogus-id"))>>
              /\ elements' = <<>>
              /\ selectedElementId' = BogusId]_vars
\* a first message with an inline create and the block [create, clear]:
\* three outcomes, two ids used, nothing stored
C23_Witness ==
  /\ calls = 1
  /\ uuidCount = 2
  /\ Len(results) = 3
  /\ results[3] = Undefined
  /\ elements = <<>>

\* the first fenced block of the message is dropped: JSON.parse rejects its
\* text, or yields an object without command
BlockDropped(m) ==
  LET jsonMatch == JSON_PATTERN(m)
      jsonData == JsonParse(jsonMatch.v)
  IN /\ jsonMatch # Undefined
     /\ \/ jsonData = SyntaxError
        \/ jsonData.t = "object" /\ Prop(jsonData, "command") = Undefined
InlineCreateGreenText ==
  Command([command |-> Str("create"), elementType |-> Str("text"),
           params |-> Obj([color |-> Str("#00ff00")])])

\* C24: when the fenced block does not parse, or parses to an object
\* without command, the parser returns exactly the commands of the inline
\* lines of the text and the message is processed without an exception of
\* the parser: the inline create next to such a block is executed.
C24_DroppedBlockKeepsInline ==
  [][\A m \in MessageInputs(Store) :
       (BlockDropped(m) /\ ProcessAIMessage(m)) =>
         /\ parseCanvasCommands(m) = parseCanvasCommands(CanvasLines(m))
         /\ m = BrokenThenInline =>
              /\ parseCanvasCommands(m) = <<InlineCreateText>>
              /\ results' = <<Str(uuidv4(uuidCount + 1))>>
              /\ Len(elements') = Len(elements) + 1
         /\ m = InlineThenNoCommand =>
              /\ parseCanvasCommands(m) = <<InlineCreateGreenText>>
              /\ results' = <<Str(uuidv4(uuidCount + 1))>>
              /\ Len(elements') = Len(elements) + 1
         /\ m = Fenced(Bracketed(NoCommandText)) =>
              /\ parseCanvasCommands(m) = <<>>
              /\ results' = <<>>
              /\ StoreUnchanged]_vars
\* the green text of the inline line that stands before a block without
\* command is the only element after the first message
C24_Witness ==
  /\ calls = 1
  /\ results = <<Str(uuidv4(1))>>
  /\ Len(elements) = 1
  /\ Get(elements[1], "type") = Str("text")
  /\ Get(elements[1], "color") = Str("#00ff00")

\* the fenced blocks of a message: the lines holding a fence, paired in
\* order as opening and closing line
FenceLines(m) == {k \in 1..Len(m) : \E i \in 1..Len(m[k]) : m[k][i].cls = "fence"}
BlockStarts(m) ==
  {k \in FenceLines(m) :
     Cardinality({j \in FenceLines(m) : j <= k}) % 2 = 1}
BlockAt(m, k) == SubSeq(m, k, Min({j \in FenceLines(m) : j > k}))
FirstBlock(m) == BlockAt(m, Min(BlockStarts(m)))
\* the block opens as the pattern wants: a fence, at most the tag json, and
\* a body that starts with [ or {
OpensJson(m, k) ==
  /\ m[k][1].cls = "fence"
  /\ \/ Len(m[k]) = 1
     \/ /\ Len(m[k]) = 2
        /\ m[k][2].cls = "word"
        /\ ToLowerCase(m[k][2].s) = "json"
  /\ m[k + 1] # <<>>
  /\ m[k + 1][1].open
JsonBlockStarts(m) == {k \in BlockStarts(m) : OpensJson(m, k)}
FirstJsonBlock(m) ==
  IF JsonBlockStarts(m) = {} THEN <<>>
  ELSE BlockAt(m, Min(JsonBlockStarts(m)))
SelectFirstBlock ==
  Command([command |-> Str("select"), elementId |-> Str("first-block")])
SelectLaterBlock ==
  Command([command |-> Str("select"), elementId |-> Str("later-block")])

\* C25 as stated: for a message with several fenced blocks the parser
\* returns the inline commands and the commands of the first fenced block
\* only; no command of a later block is returned.
C25_OnlyFirstBlock ==
  [][\A m \in MessageInputs(Store) :
       (Cardinality(BlockStarts(m)) >= 2 /\ ProcessAIMessage(m)) =>
         /\ parseCanvasCommands(m)
              = parseCanvasCommands(CanvasLines(m))
                  \o parseCanvasCommands(FirstBlock(m))
         /\ SelectLaterBlock \notin
              {parseCanvasCommands(m)[i] :
                 i \in 1..Len(parseCanvasCommands(m))}]_vars

\* C25 amended: for a message with several fenced blocks the parser
\* returns the inline commands and the commands of the first block that
\* opens with a fence, at most the tag json, and [ or {; blocks before it
\* are skipped, and no block after it contributes, even when it is dropped
\* for a parse failure.
C25_OnlyFirstJsonBlock ==
  [][\A m \in MessageInputs(Store) :
       (Cardinality(BlockStarts(m)) >= 2 /\ ProcessAIMessage(m)) =>
         /\ parseCanvasCommands(m)
              = parseCanvasCommands(CanvasLines(m))
                  \o parseCanvasCommands(FirstJsonBlock(m))
         /\ m = TwoBlocks =>
              /\ parseCanvasCommands(m) = <<SelectFirstBlock>>
              /\ selectedElementId' = Str("first-block")
         /\ m = BrokenThenBlock =>
              /\ parseCanvasCommands(m) = <<>>
              /\ StoreUnchanged
         /\ m = JsThenBlock =>
              /\ parseCanvasCommands(m) = <<SelectLaterBlock>>
              /\ selectedElementId' = Str("later-block")]_vars
\* the message with two blocks of commands was processed: the first
\* block's select is the one that ran
C25_Witness ==
  /\ selectedElementId = Str("first-block")
  /\ results = <<Str("first-block")>>

CreateHi ==
  Command([command |-> Str("create"), elementType |-> Str("text"),
           params |-> Obj([text |-> Str("Hi")])])
CreateTextNoParams ==
  Command([command |-> Str("create"), elementType |-> Str("text")])
FencedClear == Command([command |-> Str("clear")])
SelectBogus == Command([command |-> Str("select"), elementId |-> BogusId])

\* C26: a first fenced block that parses to an array of N entries adds
\* exactly these N entries, in order, whatever they are (a null entry
\* included); one that parses to an object with command adds that object.
C26_BlockEntriesAppended ==
  [][\A m \in MessageInputs(Store) :
       /\ (m = Fenced(Bracketed(HiThenClearText)) /\ ProcessAIMessage(m)) =>
            /\ parseCanvasCommands(m) = <<CreateHi, FencedClear>>
            /\ results' = <<Str(uuidv4(uuidCount + 1)), Undefined>>
       /\ (m = Fenced(Bracketed(NullEntryText)) /\ ProcessAIMessage(m)) =>
            /\ parseCanvasCommands(m) = <<Null, CreateTextNoParams>>
            /\ result' = TypeError
       /\ (m = Fenced(Bracketed(FencedSelectText("bogus-id")))
             /\ ProcessAIMessage(m)) =>
            /\ parseCanvasCommands(m) = <<SelectBogus>>
            /\ results' = <<BogusId>>
       /\ (m = InlineThenFence /\ ProcessAIMessage(m)) =>
            /\ Len(parseCanvasCommands(m)) = 1 + 2
            /\ SubSeq(parseCanvasCommands(m), 2, 3) = <<CreateHi, FencedClear>>]_vars
\* the block [create text "Hi", clear] was the first message: two outcomes,
\* one id used, nothing stored
C26_Witness ==
  /\ calls = 1
  /\ uuidCount = 1
  /\ Len(results) = 2
  /\ results[1] = Str(uuidv4(1))
  /\ elements = <<>>

\* the tail of a "/canvas" line as the line is written: the line is read as
\* "/canvas", a verb, and white-space separated tokens; when the token
\* after the verb starts with a word it stands in the elementType (or id)
\* place and the tail is what follows it, otherwise the tail starts there.
\* NoTail when the line ends before.
NoTail == <<>>
FirstWs(line, from) ==
  Min({k \in from..(Len(line) + 1) :
         k = Len(line) + 1 \/ line[k].cls = "ws"})
FirstNonWs(line, from) ==
  Min({k \in from..(Len(line) + 1) :
         k = Len(line) + 1 \/ line[k].cls # "ws"})
WrittenTail(line) ==
  LET n == Len(line)
      i == Min({k \in 1..n : line[k].cls = "slashcanvas"})
      second == FirstNonWs(line, i + 3)
      third == FirstNonWs(line, FirstWs(line, second))
  IN IF second > n THEN NoTail
     ELSE IF line[second].cls # "word" THEN SubSeq(line, second, n)
     ELSE IF third > n THEN NoTail
     ELSE SubSeq(line, third, n)
\* the params the line is said to get
ParamsOfTail(tail) ==
  IF tail = NoTail THEN Obj(NoProps)
  ELSE IF JsonParse(Join(tail)) = SyntaxError
       THEN Obj([text |-> Str(Join(tail))])
       ELSE JsonParse(Join(tail))
\* the token after the verb is a word followed by other text without white
\* space between (an id with hyphens)
GluedSecondToken(line) ==
  LET n == Len(line)
      i == Min({k \in 1..n : line[k].cls = "slashcanvas"})
      second == FirstNonWs(line, i + 3)
  IN /\ second < n
     /\ line[second].cls = "word"
     /\ line[second + 1].cls # "ws"

\* C27: every "/canvas" line of a message yields a command whose params is
\* the JSON value of the line's tail when the tail parses, { text: tail }
\* when it does not, and {} when the line has no tail; the parser does not
\* throw.
C27_InlineTailBecomesParams ==
  [][\A m \in MessageInputs(Store) :
       (CanvasLines(m) # <<>> /\ ProcessAIMessage(m)) =>
         LET lines == CanvasLines(m)
             commands == parseCanvasCommands(lines)
         IN /\ Len(commands) = Len(lines)
            /\ \A k \in 1..Len(lines) :
                 Prop(commands[k], "params")
                   = ParamsOfTail(WrittenTail(lines[k]))]_vars
\* the same for the lines in which the token after the verb is one word
C27_InlineTailBecomesParamsOfWordLines ==
  [][\A m \in MessageInputs(Store) :
       (CanvasLines(m) # <<>> /\ ProcessAIMessage(m)) =>
         LET lines == CanvasLines(m)
             commands == parseCanvasCommands(lines)
         IN /\ Len(commands) = Len(lines)
            /\ \A k \in 1..Len(lines) :
                 ~GluedSecondToken(lines[k]) =>
                   Prop(commands[k], "params")
                     = ParamsOfTail(WrittenTail(lines[k]))]_vars

\* C28: a message without "/canvas" line and without fenced block (prose,
\* also prose with JSON text outside a fence) parses to no command;
\* processing it returns the empty list and leaves elements,
\* selectedElementId and the id counter unchanged.
C28_PlainTextNoCommands ==
  [][\A m \in MessageInputs(Store) :
       (CanvasLines(m) = <<>> /\ FenceLines(m) = {} /\ ProcessAIMessage(m)) =>
         /\ parseCanvasCommands(m) = <<>>
         /\ results' = <<>>
         /\ result' = Undefined
         /\ StoreUnchanged
         /\ uuidCount' = uuidCount]_vars
\* a second message that returned no outcome and left the element of the
\* first in the store
C28_Witness ==
  /\ calls = 2
  /\ results = <<>>
  /\ result = Undefined
  /\ Len(elements) = 1
  /\ uuidCount = 1

\* C29: processing the fenced block [create text "Hi", clear] extracts the
\* create and then the clear, returns a new id and then undefined, and
\* leaves no element and no selection, whatever the store held before.
C29_CreateThenClearScenario ==
  [][ProcessAIMessage(Fenced(Bracketed(HiThenClearText))) =>
       /\ parseCanvasCommands(Fenced(Bracketed(HiThenClearText)))
            = <<CreateHi, FencedClear>>
       /\ results' = <<Str(uuidv4(uuidCount + 1)), Undefined>>
       /\ results'[1] \notin IssuedIds
       /\ elements' = <<>>
       /\ selectedElementId' = Null]_vars
\* the block was processed on a store that held an element: the second id
\* was handed out and nothing is left
C29_Witness ==
  /\ calls = 2
  /\ uuidCount = 2
  /\ results = <<Str(uuidv4(2)), Undefined>>
  /\ elements = <<>>
  /\ selectedElementId = Null

\* C30: a select command whose elementId no element has sets
\* selectedElementId to that id, leaves every element with selected =
\* false, returns the id and reports no error.
C30_SelectAbsentIsPermissive ==
  [][\A c \in SelectInputs(Store) :
       ( /\ Execute(c)
         /\ Truthy(Prop(c, "elementId"))
         /\ ~HasElement(Store, Prop(c, "elementId")) )
       => /\ selectedElementId' = Prop(c, "elementId")
          /\ result' = Prop(c, "elementId")
          /\ consoleError(Store, c) = ""
          /\ Ids(elements') = Ids(elements)
          /\ \A i \in 1..Len(elements') :
               Get(elements'[i], "selected") = Bool(FALSE)]_vars
\* an element was selected and then an absent id: the id is the selection
\* and the element's flag is false
C30_Witness ==
  /\ calls = 3
  /\ Len(elements) = 1
  /\ Get(elements[1], "selected") = Bool(FALSE)
  /\ selectedElementId = BogusId
  /\ result = BogusId

\* the element with its selected flag left aside
Unflagged(e) == [k \in (DOMAIN e) \ {"selected"} |-> e[k]]
NotThisId(id) == {i \in 1..Len(elements) : Get(elements[i], "id") # id}

\* C31: the sequence keeps insertion order: a create leaves the sequence
\* as it was or appends one element after the others; an update and a
\* select keep every element in its place (an update leaves the elements
\* with another id untouched, a select and a deselect change at most the
\* selected flag); a delete leaves the elements with another id in their
\* order.
C31_InsertionOrderKept ==
  [][/\ \A c \in CreateInputs : Execute(c) =>
          \/ elements' = elements
          \/ /\ Len(elements') = Len(elements) + 1
             /\ SubSeq(elements', 1, Len(elements)) = elements
             /\ Get(elements'[Len(elements')], "id") = result'
     /\ \A c \in UpdateInputs(Store) : Execute(c) =>
          /\ Len(elements') = Len(elements)
          /\ \A i \in NotThisId(Prop(c, "elementId")) :
               elements'[i] = elements[i]
          /\ \A i \in 1..Len(elements) :
               Get(elements'[i], "type") = Get(elements[i], "type")
     /\ \A c \in DeleteInputs(Store) : Execute(c) =>
          LET kept == IF Truthy(Prop(c, "elementId"))
                      THEN NotThisId(Prop(c, "elementId"))
                      ELSE 1..Len(elements)
          IN /\ Len(elements') = Cardinality(kept)
             /\ \A i \in kept :
                  elements'[Cardinality({j \in kept : j <= i})] = elements[i]
     /\ (Select \/ Deselect) =>
          /\ Len(elements') = Len(elements)
          /\ \A i \in 1..Len(elements) :
               Unflagged(elements'[i]) = Unflagged(elements[i])]_vars
\* two elements in the order of their creation after the first was
\* given a new color and the second was selected
C31_Witness ==
  /\ calls = 4
  /\ Ids(elements) = <<Str(uuidv4(1)), Str(uuidv4(2))>>
  /\ Get(elements[1], "color") = Str("#00ff00")
  /\ Get(elements[2], "selected") = Bool(TRUE)
  /\ Get(elements[1], "selected") = Bool(FALSE)

DeselectCommand == Command([command |-> Str("deselect")])

\* C32: after a select command the same select command changes nothing
\* more and returns the same value, and after a deselect command a second
\* deselect changes nothing more.
C32_SelectDeselectIdempotent ==
  [][/\ \A c \in SelectInputs(Store) : Execute(c) =>
          executeCanvasCommand(StoreNext, c) = Outcome(StoreNext, result')
     /\ Deselect =>
          executeCanvasCommand(StoreNext, DeselectCommand)
            = Outcome(StoreNext, Undefined)]_vars
\* the only element was selected by the last command and is flagged
C32_Witness ==
  /\ calls = 3
  /\ Len(elements) = 1
  /\ selectedElementId = Get(elements[1], "id")
  /\ result = selectedElementId
  /\ Get(elements[1], "selected") = Bool(TRUE)

\* C33: in every reachable state clearSelection() and selectElement(null)
\* give the same store: every selected flag false and selectedElementId
\* null.
C33_ClearSelectionIsSelectNull ==
  /\ selectElement(Store, Null) = clearSelection(Store)
  /\ selectElement(Store, Null).selectedElementId = Null
  /\ \A i \in 1..Len(elements) :
       Get(selectElement(Store, Null).elements[i], "selected") = Bool(FALSE)
\* the same in the states in which every element's id is a string
C33_ClearSelectionIsSelectNullForStringIds ==
  (\A i \in 1..Len(elements) : Get(elements[i], "id").t = "string")
    => /\ selectElement(Store, Null) = clearSelection(Store)
       /\ selectElement(Store, Null).selectedElementId = Null

\* <<event, part>> x comes before y
BatchBefore(x, y) == x[1] < y[1] \/ (x[1] = y[1] /\ x[2] < y[2])

\* C34: the commands are executed batch after batch: each executed command
\* is either the next command, in parser order, of the batch of the command
\* executed before it, or the first command of a later batch (a later part
\* of the same event or a part of a later event); no command of a batch
\* runs after a command of a later batch.
C34_BatchesNeverInterleave ==
  /\ \A i \in 1..(Len(trace) - 1) :
       \/ /\ trace[i + 1][1] = trace[i][1]
          /\ trace[i + 1][2] = trace[i][2]
          /\ trace[i + 1][3] = trace[i][3] + 1
       \/ /\ BatchBefore(trace[i], trace[i + 1])
          /\ trace[i + 1][3] = 1
  /\ \A i, j \in 1..Len(trace) :
       i < j => ~BatchBefore(trace[j], trace[i])
\* the three commands of the first event's batch ran and then a command of
\* the second event
C34_Witness ==
  /\ Len(trace) >= 4
  /\ trace[3] = <<1, 1, 3>>
  /\ trace[4][1] = 2
  /\ trace[4][3] = 1

\* C35: an exception of processAIMessage is caught in the handler: when a
\* command throws, the activation goes on (it is not ended) and the flag is
\* reset; whenever no part is being processed the flag is false; and when
\* the handler returns, every text part of its event was handed to
\* processAIMessage.
C35_HandlerCatchesAndContinues ==
  [][/\ (\A a \in 1..Len(activations') : ~activations'[a].running)
          => processingCanvasCommand' = FALSE
     /\ \A a \in 1..Len(activations) :
          /\ ( /\ ExecCommand(a)
               /\ executeCanvasCommand(Store, Head(activations[a].commands)).ret
                    = TypeError )
             => /\ Len(activations') = Len(activations)
                /\ processingCanvasCommand' = FALSE
                /\ log' = Append(log, "canvas.error")
          /\ Return(a) =>
               \A k \in 1..Len(activations[a].all) :
                  HasText(activations[a].all[k]) =>
                    \E n \in 1..Len(started) :
                       started[n] = <<activations[a].event, k>>]_vars
\* the event whose first part throws was handled to the end: the error
\* and then the second part's commands were logged, its element is stored
C35_Witness ==
  /\ events = 1
  /\ activations = <<>>
  /\ log = <<"canvas.error", "canvas.commands">>
  /\ Len(elements) = 1
  /\ processingCanvasCommand = FALSE
  /\ started = <<<<1, 1>>, <<1, 2>>>>

\* the fields of a new element the caller may set
SettableFields(e) == (DOMAIN e) \ {"id", "type", "selected"}

\* C36: a create command for a known variant stores every field of the
\* variant that params carries with the value params gives it, a falsy
\* value (0, "", false) included.
C36_CreateKeepsSuppliedValues ==
  [][\A c \in CreateInputs :
       ( /\ Execute(c)
         /\ Prop(c, "elementType") \in KnownTypes
         /\ Prop(c, "params").t = "object" )
       => /\ Len(elements') = Len(elements) + 1
          /\ LET e == elements'[Len(elements')]
             IN \A f \in GivenFields(c) \cap SettableFields(e) :
                  Get(e, f) = Prop(Prop(c, "params"), f)]_vars
\* the same for the supplied values that are truthy
C36_CreateKeepsSuppliedTruthyValues ==
  [][\A c \in CreateInputs :
       ( /\ Execute(c)
         /\ Prop(c, "elementType") \in KnownTypes
         /\ Prop(c, "params").t = "object" )
       => /\ Len(elements') = Len(elements) + 1
          /\ LET e == elements'[Len(elements')]
             IN \A f \in GivenFields(c) \cap SettableFields(e) :
                  Truthy(Prop(Prop(c, "params"), f)) =>
                    Get(e, f) = Prop(Prop(c, "params"), f)]_vars

\* C37: a create command leaves selectedElementId as it was, whatever its
\* params hold; the element it adds has the id the store generated (the
\* returned one, never issued before, not an id of the params) and is not
\* flagged selected.
C37_CreateCannotChooseIdOrSelection ==
  [][\A c \in CreateInputs :
       Execute(c) =>
         /\ selectedElementId' = selectedElementId
         /\ \/ elements' = elements
            \/ /\ Len(elements') = Len(elements) + 1
               /\ LET e == elements'[Len(elements')]
                  IN /\ Get(e, "id") = Str(uuidv4(uuidCount + 1))
                     /\ Get(e, "id") = result'
                     /\ Get(e, "id") \notin IssuedIds
                     /\ Get(e, "selected") # Bool(TRUE)]_vars
\* the circle of the first create has the first generated id and no flag,
\* and nothing is selected
C37_Witness ==
  /\ calls = 1
  /\ Len(elements) = 1
  /\ Get(elements[1], "type") = Str("circle")
  /\ Get(elements[1], "id") = Str(uuidv4(1))
  /\ "selected" \notin DOMAIN elements[1]
  /\ selectedElementId = Null
  /\ result = Str(uuidv4(1))

\* C38: a create or update command leaves selectedElementId as it was, a
\* delete command changes it only when its elementId is the selected id,
\* and a command that changes it is a select, a deselect, a clear or the
\* delete of the selected id.
C38_SelectionChangesOnlyBySelectionCommands ==
  [][\A c \in CreateInputs \cup UpdateInputs(Store) \cup DeleteInputs(Store)
                \cup SelectInputs(Store) \cup OtherInputs
                \cup {Command([command |-> Str("clear")]),
                      Command([command |-> Str("deselect")])} :
       (Execute(c) /\ selectedElementId' # selectedElementId) =>
         \/ Prop(c, "command") \in {Str("select"), Str("deselect"), Str("clear")}
         \/ /\ Prop(c, "command") = Str("delete")
            /\ Prop(c, "elementId") = selectedElementId
            /\ selectedElementId' = Null]_vars
\* the first of two elements was deleted while the second stayed selected
C38_Witness ==
  /\ uuidCount = 2
  /\ Len(elements) = 1
  /\ Get(elements[1], "id") = Str(uuidv4(2))
  /\ selectedElementId = Str(uuidv4(2))
  /\ result = Str(uuidv4(1))

====
